---- MODULE Spec2Model ----
(***************************************************************************)
(* OpenRXN: Model composition and flattening (openrxn/model.py), transport *)
(* connections (openrxn/connections.py) and the ODE system                 *)
(* (openrxn/systems/ODESystem.py).                                         *)
(*                                                                         *)
(* Encoding of real quantities.  Coordinates, areas and diffusion          *)
(* constants are integers.  An inter-compartment distance d is carried as  *)
(* the integer 4*d^2 (the centre of [lo,hi] is (lo+hi)/2, so 2*d_i is an   *)
(* integer on every axis); a rate constant D*A/d is carried as the record  *)
(* [num |-> D*A, d4 |-> 4*d^2] and two rates are compared as real numbers  *)
(* by RateEq.                                                              *)
(***************************************************************************)
EXTENDS Integers, Sequences, FiniteSets, TLC

\* Python's None: for a string-valued field (array_ID) and for any other
\* optional value v, carried as <<>> (absent) or <<v>> (present)
NoneStr == "None"

None == <<>>

Some(v) == <<v>>

Species == {"drug", "lig"}

\* ---------------------------------------------------------------- bounds
MaxFlatten == 2

MaxAdds == 2

\* ------------------------------------------------------ compartment pool
\* The compartment arrays that client code may hand to the Model.  Array
\* "a" has two member compartments, array "b" has one.
ArrayIDs == {"a", "b"}

ArrayComps(a) == IF a = "a" THEN << [array_ID |-> "a", ID |-> "0"], [array_ID |-> "a", ID |-> "1"] >>
                 ELSE << [array_ID |-> "b", ID |-> "0"] >>

makeID(array_ID, ID) == IF array_ID = NoneStr THEN ID ELSE array_ID \o "-" \o ID

\* a compartment that belongs to no array
Standalone == [array_ID |-> NoneStr, ID |-> "s"]

CompKeys == {"a-0", "a-1", "b-0", "s"}

\* bounding boxes: <<x, y, z>>, each <<lo, hi>>
Box0 == << <<0, 1>>, <<0, 1>>, <<0, 1>> >>
BoxX == << <<1, 2>>, <<0, 1>>, <<0, 1>> >>
BoxZ == << <<0, 1>>, <<0, 1>>, <<1, 3>> >>
BoxXY == << <<1, 3>>, <<1, 2>>, <<0, 1>> >>
BoxFar == << <<3, 4>>, <<0, 1>>, <<0, 1>> >>

\* Compartment.surface_area: face areas of the bounding box
surface_area(pos) ==
    [yz |-> (pos[2][2] - pos[2][1]) * (pos[3][2] - pos[3][1]),
     xz |-> (pos[1][2] - pos[1][1]) * (pos[3][2] - pos[3][1]),
     xy |-> (pos[1][2] - pos[1][1]) * (pos[2][2] - pos[2][1])]

min(a, b) == IF a <= b THEN a ELSE b

\* ------------------------------------------------------------ rate values
Rate(k) == [num |-> k, d4 |-> 4]

RateEq(r1, r2) == r1.num * r1.num * r2.d4 = r2.num * r2.num * r1.d4

\* -------------------------------------------------- openrxn/connections.py
\* A Python value that is either a scalar or a tuple
Scal(k) == [type |-> "scalar", items |-> <<k>>]

Tup(a, b) == [type |-> "tuple", items |-> <<a, b>>]

NoRates == [s \in {} |-> Scal(Rate(0))]

\* AnisotropicConnection.__init__: TRUE iff the constructor raises ValueError
AnisotropicInitRaises(species_rates) ==
    \E s \in DOMAIN species_rates :
        species_rates[s].type # "tuple" \/ Len(species_rates[s].items) # 2

AnisotropicConnection(species_rates) ==
    [kind |-> "Aniso", ref |-> NoneStr, species_rates |-> species_rates]

\* IsotropicConnection.__init__: a scalar k becomes (k,k), a tuple is kept
IsotropicConnection(species_rates) ==
    [kind |-> "Iso", ref |-> NoneStr,
     species_rates |-> [s \in DOMAIN species_rates |->
                          IF species_rates[s].type # "tuple"
                          THEN Tup(species_rates[s].items[1], species_rates[s].items[1])
                          ELSE species_rates[s]]]

\* a reference to the FicksConnection object t of the heap `ficks`
FicksRef(t) == [kind |-> "Ficks", ref |-> t, species_rates |-> NoRates]

\* FicksConnection.resolve: TRUE iff it raises ValueError
ResolveRaises(f) == f.surface_area = None \/ f.ic_distance = None

\* FicksConnection.resolve: rates[s] = d * surface_area / ic_distance
resolve(f) ==
    IsotropicConnection(
        [s \in DOMAIN f.species_d_constants |->
            Scal([num |-> f.species_d_constants[s] * f.surface_area[1],
                  d4  |-> f.ic_distance[1]])])

\* ------------------------------------------------------------------ state
VARIABLES
    pos,            \* [CompKeys -> box]: Compartment.pos of each pool compartment
    arr_periodic,   \* [ArrayIDs -> <<bool,bool,bool>>]: array.periodic
    arr_box_len,    \* [ArrayIDs -> <<int,int,int>>]: the list object array.box_len
    arrays,         \* Model.arrays: the array IDs in insertion order
    compartments,   \* Model.compartments: the standalone compartments, in order
    periodic,       \* Model.periodic: None or Some(<<bool,bool,bool>>)
    box_len,        \* Model.box_len: None or Some(a), the list object of array a
    heap,           \* heap[0]: connection maps of the pool compartments;
                    \* heap[n]: the FlatModel built by the n-th flatten() call
    ficks,          \* the FicksConnection objects
    nflat,          \* number of flatten() calls made
    nadd,           \* number of add_array() calls made
    flats,          \* the heap indices of the FlatModels returned to the caller
    log,            \* history: the resolve_ficks calls of the last flatten()
    ficks0,         \* history: the FicksConnection objects as constructed
    ret,            \* outcome of the last call
    prev_ret        \* outcome of the call before it

mvars == <<pos, arr_periodic, arr_box_len, arrays, compartments, periodic,
           box_len, heap, ficks, nflat, nadd, flats, log, ficks0, ret, prev_ret>>

\* openrxn/systems/ODESystem.py
VARIABLES
    sys_model,   \* the FlatModel the system owns: compartments, volumes,
                 \* reactions and connections
    state,       \* State: species, compartment, q_val
    dqdt,        \* ODESystem.dqdt: one DerivFuncBuilder per state index
    built,       \* TRUE once ODESystem.__init__ has run
    q0,          \* history: q_val when the system was constructed
    nprop,       \* number of propagate() calls made
    result       \* outcome of the last propagate() call

ovars == <<sys_model, state, dqdt, built, q0, nprop, result>>

\* openrxn/connections.py
VARIABLES
    aniso,       \* the AnisotropicConnection client code holds: None or Some
    aniso_ret     \* outcome of the last constructor or reverse() call

cvars == <<aniso, aniso_ret>>

vars == <<mvars, ovars, cvars>>

\* outcomes of a call
Returned(op, kind, n) == [op |-> op, type |-> kind, what |-> "", ids |-> <<>>, fm |-> n]

Raised(op, kind, what, ids) == [op |-> op, type |-> kind, what |-> what, ids |-> ids, fm |-> 0]

\* -------------------------------------------------------- Compartment
\* a reference to a compartment object: obj = 0 for a compartment of the
\* pool, obj = n for the copy owned by the n-th FlatModel
Ref(n, array_ID, ID) == [obj |-> n, array_ID |-> array_ID, ID |-> ID]

KeyOf(r) == makeID(r.array_ID, r.ID)

\* position of key k in the ordered map m (0 if absent)
IndexOf(m, k) ==
    IF \E j \in 1..Len(m) : m[j].key = k
    THEN CHOOSE j \in 1..Len(m) : m[j].key = k
    ELSE 0

\* Compartment.connect: connections[other key] = (other, conn)
connect(m, other, conn) ==
    LET e == [key |-> KeyOf(other), nbr |-> other, conn |-> conn]
        j == IndexOf(m, KeyOf(other))
    IN IF j = 0 THEN Append(m, e) ELSE [m EXCEPT ![j] = e]

\* Compartment.copy(ID=newID, delete_array_ID=True): a new compartment with
\* its own connection map holding the same (neighbour, connection) entries
copy(c, newID, src) ==
    [ID |-> newID, array_ID |-> NoneStr,
     connections |-> src[makeID(c.array_ID, c.ID)]]

\* ------------------------------------------------------------- FlatModel
EmptyFlat == [order |-> <<>>, conns |-> [k \in {} |-> <<>>], err |-> None]

\* FlatModel.add_compartment
add_compartment(fm, c, src) ==
    LET newID == makeID(c.array_ID, c.ID)
    IN IF newID \in DOMAIN fm.conns
       THEN [fm EXCEPT !.err = Some(Raised("flatten", "ValueError", "duplicate", <<newID>>))]
       ELSE [fm EXCEPT !.order = Append(fm.order, newID),
                       !.conns = (newID :> copy(c, newID, src).connections) @@ fm.conns]

\* FlatModel.add_compartments
RECURSIVE add_compartments(_, _, _)
add_compartments(fm, cs, src) ==
    IF cs = <<>> \/ fm.err # None THEN fm
    ELSE add_compartments(add_compartment(fm, Head(cs), src), Tail(cs), src)

\* FlatModel.find_missing_compartments
RECURSIVE MissingFrom(_, _)
MissingFrom(fm, i) ==
    IF i > Len(fm.order) THEN <<>>
    ELSE LET m == fm.conns[fm.order[i]]
             keys == [j \in 1..Len(m) |-> m[j].key]
         IN SelectSeq(keys, LAMBDA k : k \notin DOMAIN fm.conns) \o MissingFrom(fm, i + 1)

\* as find_missing_compartments, but returning from inside the loop, after
\* the first compartment
FindMissingFirstOnly(fm) ==
    IF Len(fm.order) = 0 THEN <<>>
    ELSE LET m == fm.conns[fm.order[1]]
             keys == [j \in 1..Len(m) |-> m[j].key]
         IN SelectSeq(keys, LAMBDA k : k \notin DOMAIN fm.conns)

find_missing_compartments(fm) == MissingFrom(fm, 1)

\* ------------------------------------------------------ Model.resolve_ficks
PosOf(r) == pos[KeyOf(r)]

\* edge-to-edge contact of two boxes along axis i
Adjoining(pos1, pos2, i) == pos1[i][2] = pos2[i][1] \/ pos1[i][1] = pos2[i][2]

\* the surface area resolve_ficks computes: None when it raises
AdjoiningArea(pos1, pos2) ==
    IF Adjoining(pos1, pos2, 1)
    THEN Some(min(surface_area(pos1).yz, surface_area(pos2).yz))
    ELSE IF Adjoining(pos1, pos2, 2)
    THEN Some(min(surface_area(pos1).xz, surface_area(pos2).xz))
    ELSE IF Adjoining(pos1, pos2, 3)
    THEN Some(min(surface_area(pos1).xy, surface_area(pos2).xy))
    ELSE None

\* twice the centre difference along axis i, after the periodic wrap
WrappedD2(pos1, pos2, per, bl, i) ==
    LET d2 == (pos1[i][1] + pos1[i][2]) - (pos2[i][1] + pos2[i][2])
    IN IF per[i]
       THEN IF d2 < -bl[i] THEN d2 + 2 * bl[i]
            ELSE IF d2 > bl[i] THEN d2 - 2 * bl[i]
            ELSE d2
       ELSE d2

\* the inter-compartment distance resolve_ficks computes, as 4*d^2
ICDistance(pos1, pos2, per, bl) ==
    LET sq(i) == WrappedD2(pos1, pos2, per, bl, i) * WrappedD2(pos1, pos2, per, bl, i)
    IN sq(1) + sq(2) + sq(3)

\* the record of one resolve_ficks call
Call(c1, c2, t, conn, raised, rates) ==
    [c1 |-> KeyOf(c1), c2 |-> KeyOf(c2), t |-> t,
     area_absent |-> conn.surface_area = None,
     dist_absent |-> conn.ic_distance = None,
     raised |-> raised, rates |-> rates]

\* st = [heap, ficks, err, log]: the objects as resolve_ficks leaves them
resolve_ficks(st, c1, c2, t, per, bl) ==
    LET conn == st.ficks[t]
        area == IF conn.surface_area = None
                THEN AdjoiningArea(PosOf(c1), PosOf(c2))
                ELSE conn.surface_area
    IN IF area = None
       THEN [st EXCEPT !.err = Some(Raised("flatten", "ValueError", "adjoining face",
                                           <<KeyOf(c1), KeyOf(c2)>>)),
                       !.log = Append(@, Call(c1, c2, t, conn, TRUE, NoRates))]
       ELSE LET dist == IF conn.ic_distance = None
                        THEN Some(ICDistance(PosOf(c1), PosOf(c2), per, bl))
                        ELSE conn.ic_distance
                conn2 == [conn EXCEPT !.surface_area = area, !.ic_distance = dist]
                new_conn == resolve(conn2)
                \* resolve() raises when a geometry field is still None
                unready == ResolveRaises(conn2)
                h1 == [st.heap EXCEPT ![c1.obj].conns[KeyOf(c1)] = connect(@, c2, new_conn)]
                h2 == [h1 EXCEPT ![c2.obj].conns[KeyOf(c2)] = connect(@, c1, new_conn)]
            IN IF unready
               THEN [st EXCEPT !.ficks[t] = conn2,
                               !.err = Some(Raised("flatten", "ValueError", "not ready", <<t>>)),
                               !.log = Append(@, Call(c1, c2, t, conn, TRUE, NoRates))]
               ELSE [st EXCEPT !.heap = h2, !.ficks[t] = conn2,
                               !.log = Append(@, Call(c1, c2, t, conn, FALSE, new_conn.species_rates))]

\* ------------------------------------------------------------ Model.flatten
\* the inner loop of flatten: entries j.. of the flat compartment c
RECURSIVE ResolveEntries(_, _, _, _, _, _)
ResolveEntries(st, n, c, j, per, bl) ==
    IF st.err # None \/ j > Len(st.heap[n].conns[c]) THEN st
    ELSE LET e == st.heap[n].conns[c][j]
         IN IF e.conn.kind = "Ficks"
            THEN ResolveEntries(resolve_ficks(st, Ref(n, NoneStr, c), e.nbr, e.conn.ref, per, bl),
                                n, c, j + 1, per, bl)
            ELSE ResolveEntries(st, n, c, j + 1, per, bl)

\* as ResolveComps, but flatten returns from inside the loop, after the
\* first compartment
ResolveCompsFirstOnly(st, n, i, per, bl) ==
    IF st.err # None \/ i > Len(st.heap[n].order) \/ i > 1 THEN st
    ELSE ResolveEntries(st, n, st.heap[n].order[i], 1, per, bl)

\* the outer loop of flatten: compartments i.. of the FlatModel
RECURSIVE ResolveComps(_, _, _, _, _)
ResolveComps(st, n, i, per, bl) ==
    IF st.err # None \/ i > Len(st.heap[n].order) THEN st
    ELSE ResolveComps(ResolveEntries(st, n, st.heap[n].order[i], 1, per, bl), n, i + 1, per, bl)

\* the member compartments of the arrays as, in order
RECURSIVE ArrayMembers(_)
ArrayMembers(as) ==
    IF as = <<>> THEN <<>> ELSE ArrayComps(Head(as)) \o ArrayMembers(Tail(as))

\* the result of Model.flatten(): [heap, ficks, err, log] after the call, where
\* heap[n] is the FlatModel the call built
flatten(n) ==
    LET fm0 == add_compartments(EmptyFlat, compartments, heap[0].conns)
        fm == add_compartments(fm0, ArrayMembers(arrays), heap[0].conns)
        h == (n :> [order |-> fm.order, conns |-> fm.conns]) @@ heap
        missing == find_missing_compartments(fm)
        per == IF periodic = None THEN <<FALSE, FALSE, FALSE>> ELSE periodic[1]
        bl == IF box_len = None THEN <<0, 0, 0>> ELSE arr_box_len[box_len[1]]
    IN IF fm.err # None
       THEN [heap |-> h, ficks |-> ficks, err |-> fm.err, log |-> <<>>]
       ELSE IF Len(missing) > 0
       THEN [heap |-> h, ficks |-> ficks, log |-> <<>>,
             err |-> Some(Raised("flatten", "ValueError", "missing", missing))]
       ELSE ResolveComps([heap |-> h, ficks |-> ficks, err |-> None, log |-> <<>>], n, 1, per, bl)

Flatten ==
    /\ nflat < MaxFlatten
    /\ LET n == nflat + 1
           st == flatten(n)
       IN /\ heap' = st.heap
          /\ ficks' = st.ficks
          /\ nflat' = n
          /\ flats' = IF st.err = None THEN Append(flats, n) ELSE flats
          /\ log' = st.log
          /\ ret' = IF st.err = None THEN Returned("flatten", "FlatModel", n) ELSE st.err[1]
    /\ prev_ret' = ret
    /\ UNCHANGED <<pos, arr_periodic, arr_box_len, arrays, compartments, periodic,
                   box_len, nadd, ficks0>>
    /\ UNCHANGED <<ovars, cvars>>

\* ---------------------------------------------------------- Model.add_array
\* the loop over dimensions: abl is the box_len lists, t the array whose
\* list Model.box_len refers to; returns the lists and whether it raised
RECURSIVE StackLoop(_, _, _, _, _)
StackLoop(abl, t, a, i, per) ==
    IF i > Len(abl[a]) THEN [abl |-> abl, raised |-> FALSE]
    ELSE IF abl[t][i] # abl[a][i]
         THEN IF per[i]
              THEN [abl |-> abl, raised |-> TRUE]
              ELSE StackLoop([abl EXCEPT ![t][i] = abl[t][i] + abl[a][i]], t, a, i + 1, per)
         ELSE StackLoop(abl, t, a, i + 1, per)

AddArray(a) ==
    /\ nadd < MaxAdds
    /\ nadd' = nadd + 1
    /\ prev_ret' = ret
    /\ UNCHANGED <<pos, arr_periodic, compartments, heap, ficks, nflat, flats, log, ficks0>>
    /\ UNCHANGED <<ovars, cvars>>
    /\ IF periodic # None /\ periodic[1] # arr_periodic[a]
       THEN /\ ret' = Raised("add_array", "ValueError", "periodicity", <<a>>)
            /\ UNCHANGED <<periodic, box_len, arr_box_len, arrays>>
       ELSE /\ periodic' = IF periodic = None THEN Some(arr_periodic[a]) ELSE periodic
            /\ IF box_len = None
               THEN /\ box_len' = Some(a)
                    /\ arr_box_len' = arr_box_len
                    /\ arrays' = Append(arrays, a)
                    /\ ret' = Returned("add_array", "None", 0)
               ELSE LET r == StackLoop(arr_box_len, box_len[1], a, 1, periodic'[1])
                        dup == \E j \in 1..Len(arrays) : arrays[j] = a
                    IN /\ box_len' = box_len
                       /\ arr_box_len' = r.abl
                       /\ arrays' = IF r.raised \/ dup THEN arrays ELSE Append(arrays, a)
                       /\ ret' = IF r.raised THEN Raised("add_array", "ValueError", "box size", <<a>>)
                                 ELSE IF dup THEN Raised("add_array", "ValueError", "duplicate array", <<a>>)
                                 ELSE Returned("add_array", "None", 0)

\* ----------------------------------------------------- Model.add_compartment
\* the assignment names the attribute self.comparments, which no Model has
AddCompartment(c) ==
    /\ prev_ret' = ret
    /\ ret' = IF \E j \in 1..Len(compartments) : compartments[j].ID = c.ID
              THEN Raised("add_compartment", "ValueError", "duplicate compartment", <<c.ID>>)
              ELSE Raised("add_compartment", "AttributeError", "comparments", <<c.ID>>)
    /\ UNCHANGED <<pos, arr_periodic, arr_box_len, arrays, compartments, periodic,
                   box_len, heap, ficks, nflat, nadd, flats, log, ficks0>>
    /\ UNCHANGED <<ovars, cvars>>

\* ----------------------------------------------------------------- inputs
\* how client code may have connected a pair of compartments; every link is
\* installed on both compartments
TemplateIDs == {"T1", "T2"}

\* the connection compartment `from` holds for a link of kind k, where
\* fwd tells the direction in which an anisotropic link was declared
LinkConn(k, fwd) ==
    CASE k = "T1" -> FicksRef("T1")
      [] k = "T2" -> FicksRef("T2")
      [] k = "iso" -> IsotropicConnection([s \in {"drug"} |-> Scal(Rate(3))])
      [] k = "isoT" -> IsotropicConnection([s \in {"drug"} |-> Tup(Rate(1), Rate(2))])
      [] k = "aniso" -> AnisotropicConnection([s \in {"drug"} |->
                            IF fwd THEN Tup(Rate(1), Rate(2)) ELSE Tup(Rate(2), Rate(1))])

PoolRef(key) ==
    CASE key = "a-0" -> Ref(0, "a", "0")
      [] key = "a-1" -> Ref(0, "a", "1")
      [] key = "b-0" -> Ref(0, "b", "0")
      [] key = "s" -> Ref(0, NoneStr, "s")

\* the connection map of compartment c given its links <<neighbour, kind, fwd>>
RECURSIVE LinkMap(_)
LinkMap(links) ==
    IF links = <<>> THEN <<>>
    ELSE LET l == Head(links)
         IN IF l[2] = "none" THEN LinkMap(Tail(links))
            ELSE <<[key |-> l[1], nbr |-> PoolRef(l[1]), conn |-> LinkConn(l[2], l[3])]>>
                 \o LinkMap(Tail(links))

InitConns(k1, k2, k3) ==
    [c \in CompKeys |->
        CASE c = "a-0" -> LinkMap(<< <<"a-1", k1, TRUE>>, <<"b-0", k2, TRUE>> >>)
          [] c = "a-1" -> LinkMap(<< <<"a-0", k1, FALSE>>, <<"b-0", k3, TRUE>> >>)
          [] c = "b-0" -> LinkMap(<< <<"a-0", k2, FALSE>>, <<"a-1", k3, FALSE>> >>)
          [] c = "s" -> <<>>]

Bools == {TRUE, FALSE}

InitModel ==
    /\ \E p1 \in {BoxX, BoxXY, BoxFar}, p2 \in {BoxZ, BoxFar} :
          /\ p2 = BoxFar => p1 = BoxX
          /\ pos = [c \in CompKeys |->
                     CASE c = "a-0" -> Box0 [] c = "a-1" -> p1 [] c = "b-0" -> p2
                       [] c = "s" -> BoxZ]
    /\ \E pa \in Bools, pb \in Bools, pz \in Bools :
          /\ pz => (~pa /\ ~pb)
          /\ arr_periodic = [a \in ArrayIDs |->
                                IF a = "a" THEN <<pa, FALSE, pz>> ELSE <<pb, FALSE, pz>>]
    /\ \E bb \in {<<4, 2, 3>>, <<2, 2, 1>>} :
          arr_box_len = [a \in ArrayIDs |-> IF a = "a" THEN <<4, 2, 3>> ELSE bb]
    /\ arrays = <<>>
    /\ compartments = <<>>
    /\ periodic = None
    /\ box_len = None
    /\ \E k1 \in {"T1", "iso", "isoT"}, k2 \in {"none", "T1", "T2", "aniso"},
          k3 \in {"none", "T1"} :
          heap = (0 :> [order |-> <<>>, conns |-> InitConns(k1, k2, k3)])
    /\ \E g \in {<<None, None>>, <<Some(5), None>>} :
          ficks0 = [t \in TemplateIDs |->
                     IF t = "T1"
                     THEN [species_d_constants |-> [s \in Species |-> IF s = "drug" THEN 2 ELSE 3],
                           surface_area |-> g[1], ic_distance |-> g[2]]
                     ELSE [species_d_constants |-> [s \in {"drug"} |-> 1],
                           surface_area |-> None, ic_distance |-> None]]
    /\ ficks = ficks0
    /\ log = <<>>
    /\ nflat = 0
    /\ nadd = 0
    /\ flats = <<>>
    /\ ret = Returned("init", "None", 0)
    /\ prev_ret = Returned("init", "None", 0)

IdleModel ==
    /\ pos = [c \in CompKeys |-> Box0]
    /\ arr_periodic = [a \in ArrayIDs |-> <<FALSE, FALSE, FALSE>>]
    /\ arr_box_len = [a \in ArrayIDs |-> <<4, 2, 3>>]
    /\ arrays = <<>>
    /\ compartments = <<>>
    /\ periodic = None
    /\ box_len = None
    /\ heap = (0 :> [order |-> <<>>, conns |-> InitConns("none", "none", "none")])
    /\ ficks0 = [t \in TemplateIDs |->
                    [species_d_constants |-> [s \in {"drug"} |-> 1],
                     surface_area |-> None, ic_distance |-> None]]
    /\ ficks = ficks0
    /\ log = <<>>
    /\ nflat = 0
    /\ nadd = 0
    /\ flats = <<>>
    /\ ret = Returned("init", "None", 0)
    /\ prev_ret = Returned("init", "None", 0)

\* ============================================ openrxn/systems/ODESystem.py
\* every rate of a derivative term is a fraction num/den; derivatives are
\* evaluated multiplied by Scale, a common multiple of the denominators
Scale == 4

Frac(num, den) == [num |-> num, den |-> den]

RECURSIVE Pow(_, _)
Pow(b, e) == IF e = 0 THEN 1 ELSE b * Pow(b, e - 1)

RECURSIVE Sum(_)
Sum(q) == IF q = <<>> THEN 0 ELSE Head(q) + Sum(Tail(q))

\* [x] * n
Repeat(x, n) == [j \in 1..n |-> x]

\* State.index[c][s]: the position of (compartment c, species s)
StateIndex(st, c, s) ==
    CHOOSE i \in 1..Len(st.species) : st.compartment[i] = c /\ st.species[i] = s

\* q_list and total order of one side of reaction r in compartment c
RECURSIVE QList(_, _, _, _)
QList(st, c, xs, stoich) ==
    IF xs = <<>> THEN <<>>
    ELSE Repeat(StateIndex(st, c, Head(xs)), Head(stoich)) \o QList(st, c, Tail(xs), Tail(stoich))

\* the (rate, q_list) term of one direction of a reaction: k / V^(n-1)
\* when the order n exceeds 1, k otherwise
RxnTerm(st, c, V, k, xs, stoich) ==
    LET n == Sum(stoich)
    IN IF n - 1 > 0
       THEN [rate |-> Frac(k, Pow(V, n - 1)), q_list |-> QList(st, c, xs, stoich)]
       ELSE [rate |-> Frac(k, 1), q_list |-> QList(st, c, xs, stoich)]

InSeq(x, q) == \E j \in 1..Len(q) : q[j] = x

\* as RxnLoop, but the product branch is a copy of the reactant branch
RECURSIVE RxnLoopProductAsReactant(_, _, _, _, _, _, _)
RxnLoopProductAsReactant(b, st, c, V, s, rs, j) ==
    IF j > Len(rs) THEN b
    ELSE LET r == rs[j]
             fwd == RxnTerm(st, c, V, r.kf, r.reactants, r.stoich_r)
             rev == RxnTerm(st, c, V, r.kr, r.products, r.stoich_p)
             b1 == IF InSeq(s, r.reactants) \/ InSeq(s, r.products)
                   THEN [sinks |-> IF r.kf > 0 THEN Append(b.sinks, fwd) ELSE b.sinks,
                         sources |-> IF r.kr > 0 THEN Append(b.sources, rev) ELSE b.sources]
                   ELSE b
         IN RxnLoopProductAsReactant(b1, st, c, V, s, rs, j + 1)

\* the reaction loop of _build_dqdt for species s of compartment c:
\* b = [sources, sinks] after the reactions j.. of rs
RECURSIVE RxnLoop(_, _, _, _, _, _, _)
RxnLoop(b, st, c, V, s, rs, j) ==
    IF j > Len(rs) THEN b
    ELSE LET r == rs[j]
             fwd == RxnTerm(st, c, V, r.kf, r.reactants, r.stoich_r)
             rev == RxnTerm(st, c, V, r.kr, r.products, r.stoich_p)
             b1 == IF InSeq(s, r.reactants)
                   THEN [sinks |-> IF r.kf > 0 THEN Append(b.sinks, fwd) ELSE b.sinks,
                         sources |-> IF r.kr > 0 THEN Append(b.sources, rev) ELSE b.sources]
                   ELSE IF InSeq(s, r.products)
                   THEN [sources |-> IF r.kf > 0 THEN Append(b.sources, fwd) ELSE b.sources,
                         sinks |-> IF r.kr > 0 THEN Append(b.sinks, rev) ELSE b.sinks]
                   ELSE b
         IN RxnLoop(b1, st, c, V, s, rs, j + 1)

\* the connection loop of _build_dqdt for state index i
RECURSIVE ConnLoop(_, _, _, _, _, _)
ConnLoop(b, st, mdl, i, cs, j) ==
    IF j > Len(cs) THEN b
    ELSE LET e == cs[j]
             s == st.species[i]
             c == st.compartment[i]
             b1 == IF s \in DOMAIN e.species_rates
                   THEN [sinks |-> Append(b.sinks,
                            [rate |-> Frac(e.species_rates[s][1], mdl.volume[c]), q_list |-> <<i>>]),
                         sources |-> Append(b.sources,
                            [rate |-> Frac(e.species_rates[s][2], mdl.volume[e.key]),
                             q_list |-> <<StateIndex(st, e.key, s)>>])]
                   ELSE b
         IN ConnLoop(b1, st, mdl, i, cs, j + 1)

\* ODESystem._build_dqdt
build_dqdt(st, mdl) ==
    [i \in 1..Len(st.species) |->
        LET c == st.compartment[i]
            b0 == [sources |-> <<>>, sinks |-> <<>>]
            b1 == RxnLoop(b0, st, c, mdl.volume[c], st.species[i], mdl.reactions[c], 1)
        IN ConnLoop(b1, st, mdl, i, mdl.connections[c], 1)]

\* DerivFuncBuilder.deriv_func, multiplied by Scale:
\* sum of rate * prod(Q[q_list]) over the sources, minus that over the sinks
RECURSIVE Prod(_, _)
Prod(Q, idx) == IF idx = <<>> THEN 1 ELSE Q[Head(idx)] * Prod(Q, Tail(idx))

RECURSIVE TermSum(_, _)
TermSum(ts, Q) ==
    IF ts = <<>> THEN 0
    ELSE (Scale \div Head(ts).rate.den) * Head(ts).rate.num * Prod(Q, Head(ts).q_list)
         + TermSum(Tail(ts), Q)

deriv_func(b, Q) == TermSum(b.sources, Q) - TermSum(b.sinks, Q)

\* ODESystem._dQ_dt, multiplied by Scale
dQ_dt(bs, Q) == [i \in 1..Len(bs) |-> deriv_func(bs[i], Q)]

\* the external stepper: y after k accepted steps y <- y + h * f(y), with
\* the step h = Scale
RECURSIVE Steps(_, _, _)
Steps(bs, Q, k) ==
    IF k = 0 THEN Q
    ELSE LET d == dQ_dt(bs, Q)
         IN Steps(bs, [i \in 1..Len(Q) |-> Q[i] + d[i]], k - 1)

MaxSteps == 2

MaxProp == 2

\* counts stay within -QCap..QCap
QCap == 40

WithinCap(Q) == \A i \in 1..Len(Q) : Q[i] >= -QCap /\ Q[i] <= QCap

\* the k accepted steps from Q all stay within the cap
RECURSIVE StepsWithinCap(_, _, _)
StepsWithinCap(bs, Q, k) ==
    IF ~WithinCap(Q) THEN FALSE
    ELSE IF k = 0 THEN TRUE
    ELSE LET d == dQ_dt(bs, Q)
         IN StepsWithinCap(bs, [i \in 1..Len(Q) |-> Q[i] + d[i]], k - 1)

\* ODESystem.__init__
Construct ==
    /\ ~built
    /\ built' = TRUE
    /\ dqdt' = build_dqdt(state, sys_model)
    /\ UNCHANGED <<sys_model, state, q0, nprop, result>>
    /\ UNCHANGED <<mvars, cvars>>

\* ODESystem.propagate.  solve_ivp either raises, or returns a result whose
\* y holds the accepted steps: all of them (status 0), or those made before
\* a step failed (status -1)
Propagate ==
    /\ built
    /\ nprop < MaxProp
    /\ nprop' = nprop + 1
    /\ \E outcome \in {"raised", "failed", "success"}, k \in 0..MaxSteps :
          LET y == Steps(dqdt, state.q_val, k)
          IN /\ StepsWithinCap(dqdt, state.q_val, k)
             /\ IF outcome = "raised"
                THEN /\ result' = [status |-> "exception", y |-> state.q_val]
                     /\ state' = state
                ELSE /\ result' = [status |-> outcome, y |-> y]
                     /\ state' = [state EXCEPT !.q_val = y]
    /\ UNCHANGED <<sys_model, dqdt, built, q0>>
    /\ UNCHANGED <<mvars, cvars>>

\* the reaction A + B <=> C with stoichiometry 1,1 -> 1
Binding(kf, kr) ==
    [reactants |-> <<"A", "B">>, products |-> <<"C">>,
     stoich_r |-> <<1, 1>>, stoich_p |-> <<1>>, kf |-> kf, kr |-> kr]

\* the reaction A + E <=> B + E with stoichiometry 1,1 -> 1,1: species E is
\* both a reactant and a product
Catalysis(kf, kr) ==
    [reactants |-> <<"A", "E">>, products |-> <<"B", "E">>,
     stoich_r |-> <<1, 1>>, stoich_p |-> <<1, 1>>, kf |-> kf, kr |-> kr]

\* the species of reaction r: its reactants, then the products that are not
\* reactants
SysSpecies(r) == r.reactants \o SelectSeq(r.products, LAMBDA x : ~InSeq(x, r.reactants))

\* a FlatModel of compartment c1 holding reaction r, alone (k = 0) or
\* joined to compartment c2 by a connection carrying species A at rate k
SysModel(r, V, k) ==
    [volume |-> [c \in {"c1", "c2"} |-> IF c = "c1" THEN V ELSE 2],
     reactions |-> [c \in {"c1", "c2"} |-> IF c = "c1" THEN <<r>> ELSE <<>>],
     connections |-> [c \in {"c1", "c2"} |->
        IF k = 0 THEN <<>>
        ELSE <<[key |-> IF c = "c1" THEN "c2" ELSE "c1",
                species_rates |-> [s \in {"A"} |-> <<k, k>>]]>>]]

\* State: one position per compartment and species present in it, the
\* species of reaction r in c1 and, when connected, species A in c2
SysState(r, k, q) ==
    IF k = 0
    THEN [species |-> SysSpecies(r), compartment |-> <<"c1", "c1", "c1">>, q_val |-> q]
    ELSE [species |-> SysSpecies(r) \o <<"A">>, compartment |-> <<"c1", "c1", "c1", "c2">>,
          q_val |-> q \o <<1>>]

InitODE ==
    /\ \E kf \in 0..2, kr \in 0..2, V \in {1, 2}, k \in {0, 1} :
          \E r \in {Binding(kf, kr), Catalysis(kf, kr)} :
              /\ sys_model = SysModel(r, V, k)
              /\ \E q \in [1..3 -> 0..2] : state = SysState(r, k, q)
    /\ q0 = state.q_val
    /\ dqdt = <<>>
    /\ built = FALSE
    /\ nprop = 0
    /\ result = [status |-> "none", y |-> <<>>]

IdleODE ==
    /\ sys_model = SysModel(Binding(0, 0), 1, 0)
    /\ state = SysState(Binding(0, 0), 0, <<0, 0, 0>>)
    /\ q0 = state.q_val
    /\ dqdt = <<>>
    /\ built = FALSE
    /\ nprop = 0
    /\ result = [status |-> "none", y |-> <<>>]

\* ------------------------------------------------ AnisotropicConnection
\* AnisotropicConnection._flip_tuple, as declared: def _flip_tuple(t)
flip_tuple(t) == Tup(t.items[2], t.items[1])

\* number of parameters _flip_tuple declares, and number of arguments the
\* call self._flip_tuple(x) passes (self and x)
FlipTupleParams == 1

FlipTupleArgs == 2

\* AnisotropicConnection.reverse: the loop body raises TypeError when the
\* call does not match the declaration
reverse(c) ==
    IF DOMAIN c.species_rates # {} /\ FlipTupleArgs # FlipTupleParams
    THEN [raised |-> TRUE, value |-> None]
    ELSE [raised |-> FALSE,
          value |-> Some(AnisotropicConnection(
                        [s \in DOMAIN c.species_rates |-> flip_tuple(c.species_rates[s])]))]

\* the values client code may pass for one species
RateValues ==
    {Tup(a, b) : a \in 0..2, b \in 0..2}
        \cup {Scal(1), [type |-> "tuple", items |-> <<1, 2, 3>>]}

\* AnisotropicConnection(species_rates)
NewAnisotropic ==
    /\ \E D \in SUBSET Species : \E sr \in [D -> RateValues] :
          IF AnisotropicInitRaises(sr)
          THEN /\ aniso_ret' = [op |-> "init", raised |-> TRUE, value |-> None]
               /\ aniso' = aniso
          ELSE /\ aniso' = Some(AnisotropicConnection(sr))
               /\ aniso_ret' = [op |-> "init", raised |-> FALSE, value |-> aniso']
    /\ UNCHANGED <<mvars, ovars>>

\* AnisotropicConnection.reverse() on the connection held
Reverse ==
    /\ aniso # None
    /\ LET r == reverse(aniso[1])
       IN aniso_ret' = [op |-> "reverse", raised |-> r.raised, value |-> r.value]
    /\ aniso' = aniso
    /\ UNCHANGED <<mvars, ovars>>

InitConn ==
    /\ aniso = None
    /\ aniso_ret = [op |-> "none", raised |-> FALSE, value |-> None]

\* ------------------------------------------------------- specifications
\* Model composition and flattening
Init == InitModel /\ IdleODE /\ InitConn

Next ==
    \/ \E a \in ArrayIDs : AddArray(a)
    \/ AddCompartment(Standalone)
    \/ Flatten

Spec == Init /\ [][Next]_vars

\* the ODE system
InitSys == IdleModel /\ InitODE /\ InitConn

NextSys == Construct \/ Propagate

SpecODE == InitSys /\ [][NextSys]_vars

\* anisotropic connections
InitAniso == IdleModel /\ IdleODE /\ InitConn

NextAniso == NewAnisotropic \/ Reverse

SpecConn == InitAniso /\ [][NextAniso]_vars

\* ================================================================ claims
\* the keys of an ordered connection map
KeysOf(m) == {m[j].key : j \in 1..Len(m)}

\* the connection stored under key k of the ordered map m
ConnAt(m, k) == m[IndexOf(m, k)].conn

\* equality, as real numbers, of two (k_out, k_in) pairs
PairEq(p, q) == RateEq(p.items[1], q.items[1]) /\ RateEq(p.items[2], q.items[2])

\* two FlatModels have the same compartment IDs and, for every compartment,
\* neighbour and species, the same rate-constant pair
SameFlat(f1, f2) ==
    /\ DOMAIN f1.conns = DOMAIN f2.conns
    /\ \A c \in DOMAIN f1.conns :
          /\ KeysOf(f1.conns[c]) = KeysOf(f2.conns[c])
          /\ \A k \in KeysOf(f1.conns[c]) :
                LET r1 == ConnAt(f1.conns[c], k).species_rates
                    r2 == ConnAt(f2.conns[c], k).species_rates
                IN /\ DOMAIN r1 = DOMAIN r2
                   /\ \A s \in DOMAIN r1 : PairEq(r1[s], r2[s])

\* C1: two successive flatten() calls with no operation in between return
\* FlatModels with the same compartment IDs and the same rate pairs
C1_FlattenIdempotent ==
    (ret.type = "FlatModel" /\ prev_ret.type = "FlatModel")
        => SameFlat(heap[prev_ret.fm], heap[ret.fm])

\* two successive flatten() calls returned, and the first one resolved a
\* Ficks connection of a model with both arrays
C1_Witness ==
    /\ ret.type = "FlatModel" /\ prev_ret.type = "FlatModel"
    /\ Len(arrays) = 2
    /\ \E c \in DOMAIN heap[ret.fm].conns : \E j \in 1..Len(heap[ret.fm].conns[c]) :
          /\ heap[ret.fm].conns[c][j].conn.kind = "Iso"
          /\ DOMAIN heap[ret.fm].conns[c][j].conn.species_rates = Species

\* the sequence q as a set
Range(q) == {q[j] : j \in 1..Len(q)}

\* the step is a call of flatten()
FlattenCall == nflat' = nflat + 1

\* the IDs of the flattened namespace, and the neighbour IDs the source
\* compartments name that are not in it
Namespace == {makeID(c.array_ID, c.ID) : c \in Range(ArrayMembers(arrays)) \cup Range(compartments)}

MissingIDs == {k \in UNION {KeysOf(heap[0].conns[c]) : c \in Namespace} : k \notin Namespace}

\* C2: flatten() leaves every object reachable from the source Model as it
\* was: the connection maps of its compartments, its FicksConnections, its
\* arrays, box_len and periodic
C2_NoSideEffect ==
    [][FlattenCall =>
        /\ heap'[0] = heap[0]
        /\ ficks' = ficks
        /\ UNCHANGED <<arrays, compartments, periodic, box_len, arr_box_len, arr_periodic, pos>>]_vars

\* C3: when a connection map names an ID outside the flattened namespace,
\* flatten() raises an error naming every such ID, before any Ficks
\* connection is resolved, and returns no FlatModel
C3_MissingDetected ==
    [][(FlattenCall /\ MissingIDs # {}) =>
        /\ ret'.type = "ValueError" /\ ret'.what = "missing"
        /\ MissingIDs \subseteq Range(ret'.ids)
        /\ log' = <<>> /\ ficks' = ficks /\ heap'[0] = heap[0]
        /\ flats' = flats]_vars

\* flatten() has raised the missing-compartment error for a model that
\* holds array "a" alone, whose compartments name "b-0" through an
\* unresolved Ficks connection
C3_Witness ==
    /\ ret.op = "flatten" /\ ret.what = "missing" /\ "b-0" \in Range(ret.ids)
    /\ arrays = <<"a">>
    /\ \E c \in {"a-0", "a-1"} : \E j \in 1..Len(heap[0].conns[c]) :
          heap[0].conns[c][j].key = "b-0" /\ heap[0].conns[c][j].conn.kind = "Ficks"

\* C4: in every returned FlatModel, B has an entry for A whenever A has one
\* for B, and A's outgoing rate is B's incoming rate and vice versa
C4_Symmetry ==
    \A n \in Range(flats) : \A A \in DOMAIN heap[n].conns : \A B \in KeysOf(heap[n].conns[A]) :
        /\ B \in DOMAIN heap[n].conns
        /\ A \in KeysOf(heap[n].conns[B])
        /\ LET ab == ConnAt(heap[n].conns[A], B).species_rates
               ba == ConnAt(heap[n].conns[B], A).species_rates
           IN \A s \in DOMAIN ab :
                /\ s \in DOMAIN ba
                /\ RateEq(ab[s].items[1], ba[s].items[2])
                /\ RateEq(ab[s].items[2], ba[s].items[1])

\* C8: after add_compartment(c) with an ID not yet in the model, c is
\* registered in the Model
C8_Registered ==
    (ret.op = "add_compartment" /\ ret.what # "duplicate compartment")
        => \E j \in 1..Len(compartments) : compartments[j].ID = ret.ids[1]

\* number of axes along which two boxes are in edge-to-edge contact
TouchCount(pos1, pos2) == Cardinality({i \in 1..3 : Adjoining(pos1, pos2, i)})

\* the first axis, in the order x, y, z, along which two boxes touch
FirstTouch(pos1, pos2) == CHOOSE i \in 1..3 :
    Adjoining(pos1, pos2, i) /\ \A j \in 1..(i - 1) : ~Adjoining(pos1, pos2, j)

\* the smaller of the two boxes' faces normal to axis i
MinFace(pos1, pos2, i) ==
    LET f(p) == CASE i = 1 -> surface_area(p).yz [] i = 2 -> surface_area(p).xz
                  [] i = 3 -> surface_area(p).xy
    IN min(f(pos1), f(pos2))

\* C9: a resolve_ficks call on a connection without surface area
\* raises unless the boxes touch along exactly one axis
C9_ExactlyOneAxis ==
    \A j \in 1..Len(log) :
        (log[j].area_absent /\ TouchCount(pos[log[j].c1], pos[log[j].c2]) # 1)
            => log[j].raised

\* C10: for every pair resolved through a FicksConnection that was created
\* without surface area and distance, the installed rate is D * A / dx with
\* A and dx those of the pair itself
C10_OwnGeometry ==
    \A j \in 1..Len(log) :
        LET p1 == pos[log[j].c1]
            p2 == pos[log[j].c2]
            f0 == ficks0[log[j].t]
        IN (~log[j].raised /\ f0.surface_area = None /\ f0.ic_distance = None
              /\ TouchCount(p1, p2) = 1)
            => \A s \in DOMAIN f0.species_d_constants :
                 RateEq(log[j].rates[s].items[1],
                        [num |-> f0.species_d_constants[s] * MinFace(p1, p2, FirstTouch(p1, p2)),
                         d4 |-> ICDistance(p1, p2, periodic[1], arr_box_len[box_len[1]])])

\* C5: for one compartment with only A + B <=> C and no connection, the
\* right-hand side satisfies dA/dt + dC/dt = 0 and dB/dt + dC/dt = 0 for
\* every state vector, and A + C and B + C keep their initial totals
TestVectors == [1..3 -> 0..3]

C5_MassConserved ==
    (built /\ sys_model.connections["c1"] = <<>>
       /\ state.species = <<"A", "B", "C">>) =>
        /\ \A Q \in TestVectors :
              /\ deriv_func(dqdt[1], Q) + deriv_func(dqdt[3], Q) = 0
              /\ deriv_func(dqdt[2], Q) + deriv_func(dqdt[3], Q) = 0
        /\ state.q_val[1] + state.q_val[3] = q0[1] + q0[3]
        /\ state.q_val[2] + state.q_val[3] = q0[2] + q0[3]

\* a closed system with both directions active has been integrated and
\* its counts have moved
C5_Witness ==
    /\ built /\ sys_model.connections["c1"] = <<>>
    /\ state.species = <<"A", "B", "C">>
    /\ sys_model.reactions["c1"][1].kf > 0 /\ sys_model.reactions["c1"][1].kr > 0
    /\ result.status = "success"
    /\ state.q_val[3] # q0[3]

\* the species of reaction r that are a reactant and a product with the
\* same stoichiometric coefficient
SameBothSides(r) ==
    {s \in Range(r.reactants) \cap Range(r.products) :
        \E i \in 1..Len(r.reactants), j \in 1..Len(r.products) :
            r.reactants[i] = s /\ r.products[j] = s /\ r.stoich_r[i] = r.stoich_p[j]}

\* the contribution to Scale * dq/dt, at state vector Q, of the terms of
\* builder b that carry the rate and index list of term t
TermNet(b, t, Q) ==
    TermSum(SelectSeq(b.sources, LAMBDA x : x = t), Q)
        - TermSum(SelectSeq(b.sinks, LAMBDA x : x = t), Q)

\* C11: for a species s that is a reactant and a product of the reaction
\* with the same coefficient, the builder of s holds each active direction
\* of the reaction both as a source and as a sink, and the reaction
\* contributes zero to dq_s/dt for every state vector
C11_BothRolesCancel ==
    built =>
        LET r == sys_model.reactions["c1"][1]
            V == sys_model.volume["c1"]
            fwd == RxnTerm(state, "c1", V, r.kf, r.reactants, r.stoich_r)
            rev == RxnTerm(state, "c1", V, r.kr, r.products, r.stoich_p)
        IN \A s \in SameBothSides(r) :
              LET b == dqdt[StateIndex(state, "c1", s)]
              IN /\ r.kf > 0 => (InSeq(fwd, b.sinks) /\ InSeq(fwd, b.sources))
                 /\ r.kr > 0 => (InSeq(rev, b.sinks) /\ InSeq(rev, b.sources))
                 /\ \A Q \in [1..Len(state.species) -> 0..2] :
                       TermNet(b, fwd, Q) + TermNet(b, rev, Q) = 0

\* the step is a call of add_array()
AddArrayCall == nadd' = nadd + 1

\* the value of Model.box_len, given the box_len lists of the arrays
BoxLenValue(bl, abl) == IF bl = None THEN None ELSE Some(abl[bl[1]])

\* C12: an add_array call that raises leaves arrays, periodic and box_len
\* of the Model as they were, and no add_array call changes the box_len of
\* an array added earlier
C12_AddArrayAtomic ==
    [][AddArrayCall =>
        /\ (ret'.type = "ValueError") =>
              /\ arrays' = arrays
              /\ periodic' = periodic
              /\ BoxLenValue(box_len', arr_box_len') = BoxLenValue(box_len, arr_box_len)
        /\ \A j \in 1..Len(arrays) : arr_box_len'[arrays[j]] = arr_box_len[arrays[j]]]_vars

\* C6: when the stepper reports a failure, propagate() leaves q_val as it
\* was before the call
C6_NotAdvanced ==
    [][(nprop' = nprop + 1 /\ result'.status \in {"failed", "exception"})
          => state'.q_val = state.q_val]_vars

\* C7: reverse() returns an AnisotropicConnection with the same species
\* and every pair swapped, leaves the original unchanged, and the reverse
\* of the result has the original species_rates
C7_ReverseSwaps ==
    (aniso_ret.op = "reverse") =>
        /\ ~aniso_ret.raised
        /\ DOMAIN aniso_ret.value[1].species_rates = DOMAIN aniso[1].species_rates
        /\ \A s \in DOMAIN aniso[1].species_rates :
              /\ aniso_ret.value[1].species_rates[s].items[1] = aniso[1].species_rates[s].items[2]
              /\ aniso_ret.value[1].species_rates[s].items[2] = aniso[1].species_rates[s].items[1]
        /\ ~reverse(aniso_ret.value[1]).raised
        /\ reverse(aniso_ret.value[1]).value[1].species_rates = aniso[1].species_rates

====
